---- MODULE Spec2Model ----
(***************************************************************************)
(* A model of tinystorm: a thin wrapper over GLFW and OpenGL.              *)
(*                                                                         *)
(*   mesh.rs     Attribute, Layout, build_attributes_and_get_stride,       *)
(*               Mesh, IndexedMesh (construct, clone, draw, drop)          *)
(*   shader.rs   Shader::new (read, compile, link), Drop                   *)
(*   texture.rs  Texture::load_from_file, Drop                             *)
(*   window.rs   WindowBuilder::build, Window::poll_events, input queries, *)
(*               close                                                     *)
(*                                                                         *)
(* The native side (the OpenGL object tables, the GLFW event queue and     *)
(* should-close flag) is part of the state: the wrapper's calls are        *)
(* recorded by their effect on it.                                         *)
(***************************************************************************)
EXTENDS Integers, Sequences, FiniteSets, TLC

VARIABLES
    attributes,           \* Layout.attributes: the layout being built
    wrappers,             \* the live wrapper values (Mesh, IndexedMesh, Shader, Texture)
    glVertexArrays,       \* live vertex array objects: name -> attribute state
    glVertexArrayBinding, \* the bound vertex array object (0: none)
    glBuffers,            \* live buffer objects
    glShaders,            \* live shader objects: name -> [flagged, attached]
    glPrograms,           \* live program objects
    glCurrentProgram,     \* the program glUseProgram installed (0: none)
    glUniforms,           \* linked programs: name -> uniform locations and values
    glTextures,           \* live texture objects: name -> parameters
    glActiveTexture,      \* the active texture unit
    glTextureBinding,     \* per unit, the texture bound to TEXTURE_2D (0: none)
    glDraws,              \* the last draw call issued
    deletedDead,          \* a Delete* call named an object that was not live
    drewDead,             \* a draw call bound a vertex array that was not live
    windows,              \* the Window values built so far, each with its native window
    now,                  \* the clock Instant::now() reads
    call,                 \* the last Shader::new / Texture::load_from_file call:
                          \* its arguments, what the files and the driver answered,
                          \* and the native objects it created
    panic                 \* the panic that ended the process (NoPanic: none)

glVars == <<glVertexArrays, glVertexArrayBinding, glBuffers, glShaders, glPrograms,
            glTextures, glActiveTexture, glTextureBinding, glDraws,
            deletedDead, drewDead>>

uniformVars == <<glCurrentProgram, glUniforms>>

meshVars == <<attributes, wrappers, glVars, uniformVars, call>>

windowVars == <<windows, now>>

vars == <<attributes, wrappers, glVars, uniformVars, windows, now, call, panic>>

-----------------------------------------------------------------------------
(* Bounds *)

MaxAttrs == 2      \* longest layout built with next_attribute
MaxWrappers == 2   \* wrapper values alive at once
MaxNames == 2      \* names the native library hands out, per kind of object
MaxUnits == 2      \* texture units
MaxWindows == 2    \* calls of WindowBuilder::build that reach the native library
MaxFrames == 2     \* calls of poll_events per window
MaxBatch == 2      \* native events that arrive between two calls of poll_events
MaxPending == 2    \* native events the wrapper's own calls leave for the next poll
MaxTime == 6       \* last clock reading

-----------------------------------------------------------------------------
(* mesh.rs: Attribute *)

\* The enum's variants in declaration order; repr(u8) numbers them from 0.
AttributeTypes ==
    << "Float", "Vec2", "Vec3", "Vec4",
       "Double", "DVec2", "DVec3", "DVec4",
       "Int", "IVec2", "IVec3", "IVec4",
       "UInt", "UVec2", "UVec3", "UVec4" >>

Attribute == { AttributeTypes[i] : i \in 1..Len(AttributeTypes) }

\* `*attribute as GLint`
Discriminant(a) == (CHOOSE i \in 1..Len(AttributeTypes) : AttributeTypes[i] = a) - 1

SizeOfF32 == 4
SizeOfF64 == 8
SizeOfI32 == 4
SizeOfU32 == 4

\* size_in_bytes with the scalar size of f32 for every type.
size_in_bytesOfFloats(a) == ((Discriminant(a) % 4) + 1) * SizeOfF32

size_in_bytes(a) ==
    CASE a = "Float"  -> SizeOfF32
      [] a = "Vec2"   -> 2 * SizeOfF32
      [] a = "Vec3"   -> 3 * SizeOfF32
      [] a = "Vec4"   -> 4 * SizeOfF32
      [] a = "Double" -> SizeOfF64
      [] a = "DVec2"  -> 2 * SizeOfF64
      [] a = "DVec3"  -> 3 * SizeOfF64
      [] a = "DVec4"  -> 4 * SizeOfF64
      [] a = "Int"    -> SizeOfI32
      [] a = "IVec2"  -> 2 * SizeOfI32
      [] a = "IVec3"  -> 3 * SizeOfI32
      [] a = "IVec4"  -> 4 * SizeOfI32
      [] a = "UInt"   -> SizeOfU32
      [] a = "UVec2"  -> 2 * SizeOfU32
      [] a = "UVec3"  -> 3 * SizeOfU32
      [] a = "UVec4"  -> 4 * SizeOfU32

-----------------------------------------------------------------------------
(* mesh.rs: Layout *)

LayoutDefaultValue == << >>
default_3d == << "Vec3", "Vec2", "Vec3" >>
simple_3d == << "Vec3", "Vec3" >>
default_2d == << "Vec2", "Vec2" >>
basic_2d == << "Vec2" >>

Presets == { default_3d, simple_3d, default_2d, basic_2d }

\* next_attribute putting the attribute in front.
next_attributeInFront(l, a) == << a >> \o l

\* Layout::next_attribute: push
next_attribute(l, a) == Append(l, a)

-----------------------------------------------------------------------------
(* mesh.rs: build_attributes_and_get_stride *)

I32Max == 2147483647

\* `x as GLsizei` of a usize: the low 32 bits, read as signed.  Every value the
\* model reaches is below 2^31, where the cast keeps the value.
AsGLsizei(x) == IF x <= I32Max THEN x ELSE x - I32Max - I32Max - 2

\* StrideLoop with the loop ending one attribute early.
RECURSIVE StrideLoopDropsLast(_, _, _)
StrideLoopDropsLast(l, i, stride) ==
    IF i >= Len(l) THEN stride
    ELSE StrideLoopDropsLast(l, i + 1, stride + size_in_bytes(l[i]))

\* The first loop: stride += attribute.size_in_bytes()
RECURSIVE StrideLoop(_, _, _)
StrideLoop(l, i, stride) ==
    IF i > Len(l) THEN stride
    ELSE StrideLoop(l, i + 1, stride + size_in_bytes(l[i]))

\* One iteration's native pointer call, by the match on the attribute.
PointerCall(i, a, stride, offset) ==
    CASE a \in {"Float", "Vec2", "Vec3", "Vec4"} ->
            [ fn |-> "VertexAttribPointer", index |-> i,
              size |-> Discriminant(a) + 1, type |-> "FLOAT",
              stride |-> AsGLsizei(stride), pointer |-> offset ]
      [] a \in {"Double", "DVec2", "DVec3", "DVec4"} ->
            [ fn |-> "VertexAttribLPointer", index |-> i,
              size |-> Discriminant(a) - Discriminant("Double") + 1, type |-> "FLOAT",
              stride |-> AsGLsizei(stride), pointer |-> offset ]
      [] a \in {"Int", "IVec2", "IVec3", "IVec4"} ->
            [ fn |-> "VertexAttribIPointer", index |-> i,
              size |-> Discriminant(a) - Discriminant("Int") + 1, type |-> "INT",
              stride |-> AsGLsizei(stride), pointer |-> offset ]
      [] a \in {"UInt", "UVec2", "UVec3", "UVec4"} ->
            [ fn |-> "VertexAttribIPointer", index |-> i,
              size |-> Discriminant(a) - Discriminant("UInt") + 1, type |-> "UNSIGNED_INT",
              stride |-> AsGLsizei(stride), pointer |-> offset ]

\* NextOffset advancing by the component count instead of the byte size.
NextOffsetByComponents(offset, a) == offset + (Discriminant(a) % 4) + 1

\* The offset the loop carries into the next iteration.
NextOffset(offset, a) == offset + size_in_bytes(a)

\* The second loop, from iteration i (1-based here, location i - 1) with the
\* running offset: the EnableVertexAttribArray indices and the pointer calls.
RECURSIVE AttribLoop(_, _, _, _)
AttribLoop(l, i, offset, stride) ==
    IF i > Len(l) THEN [ enabled |-> << >>, pointers |-> << >> ]
    ELSE LET rest == AttribLoop(l, i + 1, NextOffset(offset, l[i]), stride)
         IN  [ enabled  |-> << i - 1 >> \o rest.enabled,
               pointers |-> << PointerCall(i - 1, l[i], stride, offset) >> \o rest.pointers ]

\* The native calls made on the bound vertex array, and the value returned.
build_attributes_and_get_stride(l) ==
    LET stride == StrideLoop(l, 1, 0)
        calls  == AttribLoop(l, 1, 0, stride)
    IN  [ stride |-> stride, enabled |-> calls.enabled, pointers |-> calls.pointers ]

-----------------------------------------------------------------------------
(* The native object tables *)

Names == 1..MaxNames
Slots == 1..MaxWrappers
Units == 0..(MaxUnits - 1)

NoWrapper == [ type |-> "none" ]
NoPanic == [ kind |-> "none" ]
NoCall == [ op |-> "none" ]
NoDraw == [ fn |-> "none" ]

VertexByteSizes == { 0, 96 }
IndexByteSizes == { 12 }
RenderModes == { "TRIANGLES" }

\* glGen*: a name not in use.  Which one is the library's choice.
\* A program takes two shader objects, which stay alive, flagged, while they
\* are attached to it: the shader names suffice for MaxNames programs.  A
\* shader name never leaves Shader::new, so the lowest free one stands for
\* whichever the library picks.
ShaderNames == 1..(2 * MaxNames)
FreeShaderNames(live) ==
    { n \in ShaderNames \ live : \A m \in ShaderNames \ live : n <= m }

FreeNames(live) == Names \ live

LowestFree(live) == CHOOSE n \in FreeNames(live) : \A m \in FreeNames(live) : n <= m

\* glBindVertexArray(name): an error, and no change, for a name that is not live.
BindVertexArray(binding, live, name) == IF name \in live THEN name ELSE binding

\* The vertex array the attribute calls of a constructor land on.
WithAttribs(vaos, binding, build) ==
    IF binding \in DOMAIN vaos
    THEN [ vaos EXCEPT ![binding] = [ enabled |-> build.enabled, pointers |-> build.pointers ] ]
    ELSE vaos

NewVertexArray == [ enabled |-> << >>, pointers |-> << >> ]

-----------------------------------------------------------------------------
(* mesh.rs: Layout operations *)

LayoutDefault ==
    /\ panic = NoPanic
    /\ UNCHANGED windowVars
    /\ UNCHANGED uniformVars
    /\ \A s \in Slots : wrappers[s] = NoWrapper
    /\ attributes' = LayoutDefaultValue
    /\ UNCHANGED <<wrappers, glVars, call, panic>>

LayoutPreset(p) ==
    /\ panic = NoPanic
    /\ UNCHANGED windowVars
    /\ UNCHANGED uniformVars
    /\ \A s \in Slots : wrappers[s] = NoWrapper
    /\ attributes' = p
    /\ UNCHANGED <<wrappers, glVars, call, panic>>

NextAttribute(a) ==
    /\ panic = NoPanic
    /\ UNCHANGED windowVars
    /\ UNCHANGED uniformVars
    /\ \A s \in Slots : wrappers[s] = NoWrapper
    /\ Len(attributes) < MaxAttrs
    /\ attributes' = next_attribute(attributes, a)
    /\ UNCHANGED <<wrappers, glVars, call, panic>>

-----------------------------------------------------------------------------
(* mesh.rs: Mesh *)

\* Mesh::new::<T>(vertices, layout, render_mode), with size_of_val(vertices) = bytes.
\* The division by the stride panics for a stride of 0, after the native objects
\* were made.
MeshNew(slot, vao, vbo, bytes, mode) ==
    /\ panic = NoPanic
    /\ UNCHANGED windowVars
    /\ UNCHANGED uniformVars
    /\ wrappers[slot] = NoWrapper
    /\ vao \in FreeNames(DOMAIN glVertexArrays)
    /\ vbo \in FreeNames(glBuffers)
    /\ LET build == build_attributes_and_get_stride(attributes)
           vaos  == [ n \in DOMAIN glVertexArrays \cup {vao} |->
                        IF n = vao THEN NewVertexArray ELSE glVertexArrays[n] ]
       IN  /\ glVertexArrays' = WithAttribs(vaos, vao, build)
           /\ glVertexArrayBinding' = vao
           /\ glBuffers' = glBuffers \cup {vbo}
           /\ IF build.stride = 0
              THEN /\ panic' = [ kind |-> "attempt to divide by zero" ]
                   /\ UNCHANGED wrappers
              ELSE /\ wrappers' = [ wrappers EXCEPT ![slot] =
                          [ type |-> "Mesh", vao |-> vao, vbo |-> vbo,
                            num_vertices |-> AsGLsizei(bytes \div build.stride),
                            render_mode |-> mode, stride |-> build.stride ] ]
                   /\ UNCHANGED panic
    /\ UNCHANGED <<attributes, call, glShaders, glPrograms, glTextures, glActiveTexture,
                   glTextureBinding, glDraws, deletedDead, drewDead>>

\* #[derive(Clone)] on Mesh: a field-by-field copy, the native names included.
MeshClone(from, to) ==
    /\ panic = NoPanic
    /\ UNCHANGED windowVars
    /\ UNCHANGED uniformVars
    /\ wrappers[from].type = "Mesh"
    /\ wrappers[to] = NoWrapper
    /\ wrappers' = [ wrappers EXCEPT ![to] = wrappers[from] ]
    /\ UNCHANGED <<attributes, glVars, call, panic>>

\* Mesh::draw
MeshDraw(slot) ==
    /\ panic = NoPanic
    /\ UNCHANGED windowVars
    /\ UNCHANGED uniformVars
    /\ wrappers[slot].type = "Mesh"
    /\ LET w == wrappers[slot]
       IN  /\ glVertexArrayBinding' =
                 BindVertexArray(glVertexArrayBinding, DOMAIN glVertexArrays, w.vao)
           /\ glDraws' = [ fn |-> "DrawArrays", mode |-> w.render_mode,
                           first |-> 0, count |-> w.num_vertices ]
           /\ drewDead' = (drewDead \/ w.vao \notin DOMAIN glVertexArrays)
    /\ UNCHANGED <<attributes, call, wrappers, glVertexArrays, glBuffers, glShaders,
                   glPrograms, glTextures, glActiveTexture, glTextureBinding,
                   deletedDead, panic>>

\* glDeleteVertexArrays(1, &name): the bound one reverts the binding to 0.
DeleteVertexArray(vaos, name) == [ n \in DOMAIN vaos \ {name} |-> vaos[n] ]

\* Drop for Mesh
MeshDrop(slot) ==
    /\ panic = NoPanic
    /\ UNCHANGED windowVars
    /\ UNCHANGED uniformVars
    /\ wrappers[slot].type = "Mesh"
    /\ LET w == wrappers[slot]
       IN  /\ glVertexArrays' = DeleteVertexArray(glVertexArrays, w.vao)
           /\ glVertexArrayBinding' =
                 IF glVertexArrayBinding = w.vao THEN 0 ELSE glVertexArrayBinding
           /\ glBuffers' = glBuffers \ {w.vbo}
           /\ deletedDead' = (\/ deletedDead
                              \/ w.vao \notin DOMAIN glVertexArrays
                              \/ w.vbo \notin glBuffers)
    /\ wrappers' = [ wrappers EXCEPT ![slot] = NoWrapper ]
    /\ UNCHANGED <<attributes, call, glShaders, glPrograms, glTextures, glActiveTexture,
                   glTextureBinding, glDraws, drewDead, panic>>

-----------------------------------------------------------------------------
(* mesh.rs: IndexedMesh *)

\* IndexedMesh::new::<T>(indices, vertices, layout, render_mode), with
\* size_of_val(indices) = ibytes.  The stride returned is dropped (kept here in
\* the field stride, which the struct does not have).
IndexedMeshNew(slot, vao, ebo, vbo, ibytes, mode) ==
    /\ panic = NoPanic
    /\ UNCHANGED windowVars
    /\ UNCHANGED uniformVars
    /\ wrappers[slot] = NoWrapper
    /\ vao \in FreeNames(DOMAIN glVertexArrays)
    /\ ebo \in FreeNames(glBuffers)
    /\ vbo \in FreeNames(glBuffers \cup {ebo})
    /\ LET build == build_attributes_and_get_stride(attributes)
           vaos  == [ n \in DOMAIN glVertexArrays \cup {vao} |->
                        IF n = vao THEN NewVertexArray ELSE glVertexArrays[n] ]
       IN  /\ glVertexArrays' = WithAttribs(vaos, vao, build)
           /\ glVertexArrayBinding' = vao
           /\ glBuffers' = glBuffers \cup {ebo, vbo}
           /\ wrappers' = [ wrappers EXCEPT ![slot] =
                  [ type |-> "IndexedMesh", vao |-> vao, ebo |-> ebo, vbo |-> vbo,
                    num_indices |-> AsGLsizei(ibytes),
                    render_mode |-> mode, stride |-> build.stride ] ]
    /\ UNCHANGED <<attributes, call, glShaders, glPrograms, glTextures, glActiveTexture,
                   glTextureBinding, glDraws, deletedDead, drewDead, panic>>

\* #[derive(Clone)] on IndexedMesh
IndexedMeshClone(from, to) ==
    /\ panic = NoPanic
    /\ UNCHANGED windowVars
    /\ UNCHANGED uniformVars
    /\ wrappers[from].type = "IndexedMesh"
    /\ wrappers[to] = NoWrapper
    /\ wrappers' = [ wrappers EXCEPT ![to] = wrappers[from] ]
    /\ UNCHANGED <<attributes, glVars, call, panic>>

\* IndexedMesh::draw
IndexedMeshDraw(slot) ==
    /\ panic = NoPanic
    /\ UNCHANGED windowVars
    /\ UNCHANGED uniformVars
    /\ wrappers[slot].type = "IndexedMesh"
    /\ LET w == wrappers[slot]
       IN  /\ glVertexArrayBinding' =
                 BindVertexArray(glVertexArrayBinding, DOMAIN glVertexArrays, w.vao)
           /\ glDraws' = [ fn |-> "DrawElements", mode |-> w.render_mode,
                           first |-> 0, count |-> w.num_indices ]
           /\ drewDead' = (drewDead \/ w.vao \notin DOMAIN glVertexArrays)
    /\ UNCHANGED <<attributes, call, wrappers, glVertexArrays, glBuffers, glShaders,
                   glPrograms, glTextures, glActiveTexture, glTextureBinding,
                   deletedDead, panic>>

\* Drop for IndexedMesh
IndexedMeshDrop(slot) ==
    /\ panic = NoPanic
    /\ UNCHANGED windowVars
    /\ UNCHANGED uniformVars
    /\ wrappers[slot].type = "IndexedMesh"
    /\ LET w == wrappers[slot]
       IN  /\ glVertexArrays' = DeleteVertexArray(glVertexArrays, w.vao)
           /\ glVertexArrayBinding' =
                 IF glVertexArrayBinding = w.vao THEN 0 ELSE glVertexArrayBinding
           /\ glBuffers' = glBuffers \ {w.ebo, w.vbo}
           /\ deletedDead' = (\/ deletedDead
                              \/ w.vao \notin DOMAIN glVertexArrays
                              \/ w.ebo \notin glBuffers
                              \/ w.vbo \notin glBuffers)
    /\ wrappers' = [ wrappers EXCEPT ![slot] = NoWrapper ]
    /\ UNCHANGED <<attributes, call, glShaders, glPrograms, glTextures, glActiveTexture,
                   glTextureBinding, glDraws, drewDead, panic>>

-----------------------------------------------------------------------------
(* shader.rs: the native shader and program objects *)

\* glCreateShader
CreateShader(shaders, name, type) ==
    [ n \in DOMAIN shaders \cup {name} |->
        IF n = name THEN [ type |-> type, attached |-> 0, flagged |-> FALSE ]
        ELSE shaders[n] ]

\* glDeleteShader: a shader attached to a program is only flagged for deletion,
\* and deleted when it is detached; a name that is not a shader is ignored.
DeleteShader(shaders, name) ==
    IF name \notin DOMAIN shaders THEN shaders
    ELSE IF shaders[name].attached # 0
         THEN [ shaders EXCEPT ![name].flagged = TRUE ]
         ELSE [ n \in DOMAIN shaders \ {name} |-> shaders[n] ]

\* glAttachShader
AttachShader(shaders, program, name) == [ shaders EXCEPT ![name].attached = program ]

\* Shader::delete_shaders
delete_shaders(shaders, vertex_shader, fragment_shader) ==
    DeleteShader(DeleteShader(shaders, vertex_shader), fragment_shader)

\* glDeleteProgram, on the shader table: the program's shaders are detached, and
\* those flagged for deletion are deleted.
DetachAll(shaders, program) ==
    LET kept == { n \in DOMAIN shaders :
                     ~(shaders[n].attached = program /\ shaders[n].flagged) }
    IN  [ n \in kept |->
            IF shaders[n].attached = program
            THEN [ shaders[n] EXCEPT !.attached = 0 ]
            ELSE shaders[n] ]

VertexPaths == { "test.vert" }
FragmentPaths == { "test.frag" }

ShaderArgs ==
    [ op : {"Shader::new"}, vertex_path : VertexPaths, fragment_path : FragmentPaths,
      vertex_readable : BOOLEAN, fragment_readable : BOOLEAN,
      vertex_compiles : BOOLEAN, fragment_compiles : BOOLEAN, links : BOOLEAN ]

\* A panic of Shader::new: the message names the stage and the path(s).
ShaderPanic(kind, stage, path) == [ kind |-> kind, stage |-> stage, path |-> path ]

\* Shader::load_shader for the stage whose source compiles or not: the shader
\* table after the call.  A shader that fails to compile is deleted.
load_shader(shaders, name, type, compiles) ==
    IF compiles THEN CreateShader(shaders, name, type)
    ELSE DeleteShader(CreateShader(shaders, name, type), name)

\* ReadFailure with the fragment file looked at first.
ReadFailureFragmentFirst(a) ==
    IF ~a.fragment_readable THEN "fragment"
    ELSE IF ~a.vertex_readable THEN "vertex"
    ELSE "none"

\* The two read_to_string calls and their checks, in order: the stage whose
\* file could not be read ("none": both were read).
ReadFailure(a) ==
    IF ~a.vertex_readable THEN "vertex"
    ELSE IF ~a.fragment_readable THEN "fragment"
    ELSE "none"

UniformNames == { "u_ColorSampler", "u_Time" }
UniformValues == { 1, 2 }
NoLocation == -1

\* The locations a linker can give the uniforms: distinct for the active
\* ones, NoLocation for one the program does not use.
UniformLocations ==
    { l \in [ UniformNames -> { NoLocation, 0, 1 } ] :
         \A n1 \in UniformNames, n2 \in UniformNames :
            (n1 # n2 /\ l[n1] # NoLocation) => l[n1] # l[n2] }

DefaultLocations == [ n \in UniformNames |-> IF n = "u_ColorSampler" THEN 0 ELSE 1 ]

\* glLinkProgram that succeeds: the active uniforms get their locations and
\* the value 0.
LinkProgram(uniforms, program, locations) ==
    [ q \in DOMAIN uniforms \cup {program} |->
         IF q = program
         THEN [ locations |-> locations,
                values |-> [ l \in { locations[n] : n \in UniformNames } \ {NoLocation} |-> 0 ] ]
         ELSE uniforms[q] ]

\* Shader::new(vertex_path, fragment_path).  a says whether each file can be
\* read, whether each source compiles and whether the program links.
ShaderNewWith(slot, a, locations) ==
    /\ panic = NoPanic
    /\ UNCHANGED windowVars
    /\ UNCHANGED glCurrentProgram
    /\ wrappers[slot] = NoWrapper
    /\ IF ReadFailure(a) = "vertex"
       THEN /\ panic' = ShaderPanic("read", "vertex", a.vertex_path)
            /\ call' = a @@ [ created |-> {} ]
            /\ UNCHANGED <<wrappers, glShaders, glPrograms, glUniforms>>
       ELSE IF ReadFailure(a) = "fragment"
       THEN /\ panic' = ShaderPanic("read", "fragment", a.fragment_path)
            /\ call' = a @@ [ created |-> {} ]
            /\ UNCHANGED <<wrappers, glShaders, glPrograms, glUniforms>>
       ELSE \E vs \in FreeShaderNames(DOMAIN glShaders) :
            IF ~a.vertex_compiles
            THEN /\ glShaders' = load_shader(glShaders, vs, "vertex", FALSE)
                 /\ panic' = ShaderPanic("compile", "vertex", a.vertex_path)
                 /\ call' = a @@ [ created |-> { <<"shader", vs>> } ]
                 /\ UNCHANGED <<wrappers, glPrograms, glUniforms>>
            ELSE \E fs \in FreeShaderNames(DOMAIN glShaders \cup {vs}) :
                 LET s1 == load_shader(glShaders, vs, "vertex", TRUE)
                 IN
                 IF ~a.fragment_compiles
                 THEN /\ glShaders' = load_shader(s1, fs, "fragment", FALSE)
                      /\ panic' = ShaderPanic("compile", "fragment", a.fragment_path)
                      /\ call' = a @@ [ created |-> { <<"shader", vs>>, <<"shader", fs>> } ]
                      /\ UNCHANGED <<wrappers, glPrograms, glUniforms>>
                 ELSE \E program \in FreeNames(glPrograms) :
                      LET s2 == load_shader(s1, fs, "fragment", TRUE)
                          s3 == AttachShader(AttachShader(s2, program, vs), program, fs)
                      IN  /\ glPrograms' = glPrograms \cup {program}
                          /\ glShaders' = delete_shaders(s3, vs, fs)
                          /\ call' = a @@ [ created |-> { <<"shader", vs>>, <<"shader", fs>>,
                                                          <<"program", program>> } ]
                          /\ IF ~a.links
                             THEN /\ panic' = ShaderPanic("link", "program",
                                                   <<a.vertex_path, a.fragment_path>>)
                                  /\ UNCHANGED <<wrappers, glUniforms>>
                             ELSE /\ wrappers' = [ wrappers EXCEPT ![slot] =
                                         [ type |-> "Shader", program |-> program ] ]
                                  /\ glUniforms' = LinkProgram(glUniforms, program, locations)
                                  /\ UNCHANGED panic
    /\ UNCHANGED <<attributes, glVertexArrays, glVertexArrayBinding, glBuffers,
                   glTextures, glActiveTexture, glTextureBinding, glDraws,
                   deletedDead, drewDead>>

\* Shader::new with the uniform locations of a usual two-uniform program.
ShaderNew(slot, a) == ShaderNewWith(slot, a, DefaultLocations)

\* Drop for Shader.  glDeleteProgram of the program in use only flags it: it
\* stays installed, and no wrapper can name it any more.
ShaderDrop(slot) ==
    /\ panic = NoPanic
    /\ UNCHANGED windowVars
    /\ UNCHANGED glCurrentProgram
    /\ wrappers[slot].type = "Shader"
    /\ glUniforms' = [ q \in DOMAIN glUniforms \ {wrappers[slot].program} |-> glUniforms[q] ]
    /\ LET w == wrappers[slot]
       IN  /\ glPrograms' = glPrograms \ {w.program}
           /\ glShaders' = DetachAll(glShaders, w.program)
           /\ deletedDead' = (deletedDead \/ w.program \notin glPrograms)
    /\ wrappers' = [ wrappers EXCEPT ![slot] = NoWrapper ]
    /\ UNCHANGED <<attributes, call, glVertexArrays, glVertexArrayBinding, glBuffers,
                   glTextures, glActiveTexture, glTextureBinding, glDraws,
                   drewDead, panic>>

\* glUseProgram(program)
UseProgram(program) ==
    /\ glCurrentProgram' = program
    /\ UNCHANGED glUniforms

\* Shader::bind
ShaderBind(slot) ==
    /\ panic = NoPanic
    /\ wrappers[slot].type = "Shader"
    /\ UseProgram(wrappers[slot].program)
    /\ UNCHANGED <<attributes, wrappers, glVars, call, panic, windowVars>>

\* Shader::unbind
ShaderUnbind ==
    /\ panic = NoPanic
    /\ UseProgram(0)
    /\ UNCHANGED <<attributes, wrappers, glVars, call, panic, windowVars>>

\* Shader::get_uniform_location(name): glGetUniformLocation on the shader's
\* own program
get_uniform_location(uniforms, program, name) ==
    IF program \in DOMAIN uniforms THEN uniforms[program].locations[name] ELSE NoLocation

\* glUniform1i(location, value): the uniform at location of the program in
\* use is written.  NoLocation is ignored; with no program in use, or no
\* uniform at the location, the call is an error and writes nothing.
Uniform1i(uniforms, current, location, value) ==
    IF /\ location # NoLocation
       /\ current \in DOMAIN uniforms
       /\ location \in DOMAIN uniforms[current].values
    THEN [ uniforms EXCEPT ![current].values[location] = value ]
    ELSE uniforms

\* Shader::set_int(name, value), and set_bool with value 1 or 0
ShaderSetInt(slot, name, value) ==
    /\ panic = NoPanic
    /\ wrappers[slot].type = "Shader"
    /\ glUniforms' = Uniform1i(glUniforms, glCurrentProgram,
                               get_uniform_location(glUniforms, wrappers[slot].program, name),
                               value)
    /\ UNCHANGED <<attributes, wrappers, glVars, glCurrentProgram, call, panic, windowVars>>

-----------------------------------------------------------------------------
(* texture.rs *)

NEAREST == 9728
LINEAR == 9729
NEAREST_MIPMAP_LINEAR == 9986
TextureMaxLevel == 4

Filters == { NEAREST, LINEAR }
Wraps == { "REPEAT" }
TexturePaths == { "super_mario.png" }

TextureArgs ==
    [ op : {"Texture::load_from_file"}, path : TexturePaths, decodes : BOOLEAN,
      filter : Filters, wrap : Wraps ]

\* The minification filter equal to the magnification filter: no mipmapping.
MinFilterOfLevelZero(filter) == filter

\* The minification filter load_from_file sets for a magnification filter.
MinFilter(filter) == filter + NEAREST_MIPMAP_LINEAR - NEAREST

\* glTexImage2D on the bound texture: level 0 gets the image.
TexImage2D(texture) == [ texture EXCEPT !.image = TRUE ]

\* glGenerateMipmap on the bound texture: the levels above 0 are derived from
\* the image of level 0, if there is one.
GenerateMipmap(texture) == [ texture EXCEPT !.mipmaps = texture.image ]

\* glBindTexture(TEXTURE_2D, name) on the active unit
BindTexture(binding, unit, name) == [ binding EXCEPT ![unit] = name ]

\* glDeleteTextures(1, &name), on the bindings: a deleted texture is unbound
\* from every unit it was bound to.
UnbindDeleted(binding, name) ==
    [ u \in DOMAIN binding |-> IF binding[u] = name THEN 0 ELSE binding[u] ]

\* Texture::load_from_file(path, filter, wrap)
TextureLoad(slot, a) ==
    /\ panic = NoPanic
    /\ UNCHANGED windowVars
    /\ UNCHANGED uniformVars
    /\ wrappers[slot] = NoWrapper
    /\ IF ~a.decodes
       THEN /\ panic' = [ kind |-> "load texture", path |-> a.path ]
            /\ call' = a @@ [ created |-> {} ]
            /\ UNCHANGED <<wrappers, glTextures, glTextureBinding>>
       ELSE \E id \in FreeNames(DOMAIN glTextures) :
            /\ glTextures' =
                  [ n \in DOMAIN glTextures \cup {id} |->
                      IF n = id
                      THEN GenerateMipmap(TexImage2D(
                              [ wrap_s |-> a.wrap, wrap_t |-> a.wrap,
                                min_filter |-> MinFilter(a.filter), mag_filter |-> a.filter,
                                max_level |-> TextureMaxLevel,
                                image |-> FALSE, mipmaps |-> FALSE ]))
                      ELSE glTextures[n] ]
            /\ glTextureBinding' = BindTexture(glTextureBinding, glActiveTexture, 0)
            /\ call' = a @@ [ created |-> { <<"texture", id>> } ]
            /\ wrappers' = [ wrappers EXCEPT ![slot] = [ type |-> "Texture", id |-> id ] ]
            /\ UNCHANGED panic
    /\ UNCHANGED <<attributes, glVertexArrays, glVertexArrayBinding, glBuffers, glShaders,
                   glPrograms, glActiveTexture, glDraws, deletedDead, drewDead>>

\* Texture::bind(slot): gl::ActiveTexture(gl::TEXTURE0 + slot), then BindTexture
TextureBind(slot, unit) ==
    /\ panic = NoPanic
    /\ UNCHANGED windowVars
    /\ UNCHANGED uniformVars
    /\ wrappers[slot].type = "Texture"
    /\ glActiveTexture' = unit
    /\ glTextureBinding' = BindTexture(glTextureBinding, unit, wrappers[slot].id)
    /\ UNCHANGED <<attributes, wrappers, call, glVertexArrays, glVertexArrayBinding,
                   glBuffers, glShaders, glPrograms, glTextures, glDraws,
                   deletedDead, drewDead, panic>>

\* Texture::unbind()
TextureUnbind ==
    /\ panic = NoPanic
    /\ UNCHANGED windowVars
    /\ UNCHANGED uniformVars
    /\ glTextureBinding' = BindTexture(glTextureBinding, glActiveTexture, 0)
    /\ UNCHANGED <<attributes, wrappers, call, glVertexArrays, glVertexArrayBinding,
                   glBuffers, glShaders, glPrograms, glTextures, glActiveTexture, glDraws,
                   deletedDead, drewDead, panic>>

\* Drop for Texture
TextureDrop(slot) ==
    /\ panic = NoPanic
    /\ UNCHANGED windowVars
    /\ UNCHANGED uniformVars
    /\ wrappers[slot].type = "Texture"
    /\ LET w == wrappers[slot]
       IN  /\ glTextureBinding' =
                 UnbindDeleted(BindTexture(glTextureBinding, glActiveTexture, 0), w.id)
           /\ glTextures' = [ n \in DOMAIN glTextures \ {w.id} |-> glTextures[n] ]
           /\ deletedDead' = (deletedDead \/ w.id \notin DOMAIN glTextures)
    /\ wrappers' = [ wrappers EXCEPT ![slot] = NoWrapper ]
    /\ UNCHANGED <<attributes, call, glVertexArrays, glVertexArrayBinding, glBuffers,
                   glShaders, glPrograms, glActiveTexture, glDraws, drewDead, panic>>

-----------------------------------------------------------------------------
(* Specification of the layout arithmetic: one mesh at a time, built from any *)
(* layout the Layout API makes.                                               *)

InitGL ==
    /\ wrappers = [ s \in Slots |-> NoWrapper ]
    /\ glVertexArrays = << >>
    /\ glVertexArrayBinding = 0
    /\ glBuffers = {}
    /\ glShaders = << >>
    /\ glPrograms = {}
    /\ glCurrentProgram = 0
    /\ glUniforms = << >>
    /\ glTextures = << >>
    /\ glActiveTexture = 0
    /\ glTextureBinding = [ u \in Units |-> 0 ]
    /\ glDraws = NoDraw
    /\ deletedDead = FALSE
    /\ drewDead = FALSE
    /\ call = NoCall
    /\ panic = NoPanic
    /\ windows = << >>
    /\ now = 0

InitLayout ==
    /\ attributes = LayoutDefaultValue
    /\ InitGL

NextLayout ==
    \/ LayoutDefault
    \/ \E p \in Presets : LayoutPreset(p)
    \/ \E a \in Attribute : NextAttribute(a)
    \/ \E b \in VertexByteSizes, m \in RenderModes :
          MeshNew(1, LowestFree(DOMAIN glVertexArrays), LowestFree(glBuffers), b, m)
    \/ \E i \in IndexByteSizes, m \in RenderModes :
          IndexedMeshNew(1, LowestFree(DOMAIN glVertexArrays), LowestFree(glBuffers),
                         LowestFree(glBuffers \cup {LowestFree(glBuffers)}), i, m)
    \/ MeshDraw(1)
    \/ MeshDrop(1)
    \/ IndexedMeshDraw(1)
    \/ IndexedMeshDrop(1)

SpecLayout == InitLayout /\ [][NextLayout]_vars

-----------------------------------------------------------------------------
(* Specification of the native resources: wrappers are constructed, cloned,   *)
(* used and dropped in any order.                                             *)

InitResources ==
    /\ attributes \in { basic_2d, default_3d }
    /\ InitGL

NextResources ==
    \/ \E s \in Slots, b \in VertexByteSizes, m \in RenderModes :
       \E vao \in FreeNames(DOMAIN glVertexArrays), vbo \in FreeNames(glBuffers) :
          MeshNew(s, vao, vbo, b, m)
    \/ \E s \in Slots, i \in IndexByteSizes, m \in RenderModes :
       \E vao \in FreeNames(DOMAIN glVertexArrays), ebo \in FreeNames(glBuffers) :
       \E vbo \in FreeNames(glBuffers \cup {ebo}) :
          IndexedMeshNew(s, vao, ebo, vbo, i, m)
    \/ \E from \in Slots, to \in Slots : MeshClone(from, to)
    \/ \E from \in Slots, to \in Slots : IndexedMeshClone(from, to)
    \/ \E s \in Slots : MeshDraw(s)
    \/ \E s \in Slots : IndexedMeshDraw(s)
    \/ \E s \in Slots : MeshDrop(s)
    \/ \E s \in Slots : IndexedMeshDrop(s)
    \/ \E s \in Slots, a \in ShaderArgs : ShaderNew(s, a)
    \/ \E s \in Slots : ShaderDrop(s)
    \/ \E s \in Slots, a \in TextureArgs : TextureLoad(s, a)
    \/ \E s \in Slots, u \in Units : TextureBind(s, u)
    \/ TextureUnbind
    \/ \E s \in Slots : TextureDrop(s)

SpecResources == InitResources /\ [][NextResources]_vars

-----------------------------------------------------------------------------
(* Specification of the loaders: Shader::new and Texture::load_from_file with *)
(* every answer the files and the driver can give.                            *)

NextLoad ==
    \/ \E s \in Slots, a \in ShaderArgs : ShaderNew(s, a)
    \/ \E s \in Slots : ShaderDrop(s)
    \/ \E s \in Slots, a \in TextureArgs : TextureLoad(s, a)
    \/ \E s \in Slots : TextureDrop(s)

SpecLoad == InitResources /\ [][NextLoad]_vars

-----------------------------------------------------------------------------
(* window.rs: keys, mouse buttons and the native events *)

Keys == { "A", "B", "Unknown" }
MouseButtons == { "Button1" }

KEY_LAST == 348
MOUSE_BUTTON_LAST == 7

\* glfw::Key and glfw::MouseButton as integers
KeyCode(key) ==
    CASE key = "A" -> 65
      [] key = "B" -> 66
      [] key = "Unknown" -> -1

ButtonCode(button) == CASE button = "Button1" -> 0

\* array[code as usize] of an array of last + 1 entries is in bounds.  A
\* negative code converts to a usize above every array length.
InBounds(code, last) == code >= 0 /\ code <= last

\* The entries of keys and mouse_buttons the model follows; the others stay 0.
KeyIndices == { KeyCode(k) : k \in Keys } \cap (0..KEY_LAST)
ButtonIndices == { ButtonCode(b) : b \in MouseButtons } \cap (0..MOUSE_BUTTON_LAST)

KeyEvent(key, action) == [ type |-> "Key", key |-> key, action |-> action ]
MouseButtonEvent(button, action) ==
    [ type |-> "MouseButton", button |-> button, action |-> action ]
FramebufferSizeEvent(width, height) ==
    [ type |-> "FramebufferSize", width |-> width, height |-> height ]
CursorPosEvent(x, y) == [ type |-> "CursorPos", x |-> x, y |-> y ]
CloseEvent == [ type |-> "Close" ]

\* build turns on key, mouse button and framebuffer size polling: only these
\* events are sent to the receiver.
Polled(e) == e.type \in { "Key", "MouseButton", "FramebufferSize" }

-----------------------------------------------------------------------------
(* window.rs: WindowBuilder *)

NO_MAX_FPS == 0
NO_MSAA == 0
TicksPerSecond == 4

WindowBuilderDefault ==
    [ width |-> 960, height |-> 540, title |-> "Titled window, lol",
      vsync |-> TRUE, max_fps |-> NO_MAX_FPS, msaa |-> NO_MSAA ]

with_size(b, width, height) == [ b EXCEPT !.width = width, !.height = height ]
with_title(b, title) == [ b EXCEPT !.title = title ]
with_vsync(b, vsync) == [ b EXCEPT !.vsync = vsync ]
with_max_fps(b, max_fps) == [ b EXCEPT !.max_fps = max_fps ]
with_msaa(b, msaa_quality) == [ b EXCEPT !.msaa = msaa_quality ]

\* Duration::from_secs_f32(1.0 / max_fps as f32), in clock ticks
FrameDuration(max_fps) ==
    IF max_fps = NO_MAX_FPS THEN 0 ELSE TicksPerSecond \div max_fps

RECURSIVE Gcd(_, _)
Gcd(a, b) == IF b = 0 THEN a ELSE Gcd(b, a % b)

\* width as f32 / height as f32, as a reduced fraction; den = 0 is the
\* infinity (num = 1) or NaN (num = 0) of a division by 0.0.
Quotient(width, height) ==
    IF height = 0 THEN [ num |-> IF width = 0 THEN 0 ELSE 1, den |-> 0 ]
    ELSE [ num |-> width \div Gcd(width, height), den |-> height \div Gcd(width, height) ]

InitialPos == << 0, 0 >>

\* The Window value build returns at time t, with its native window (handle),
\* the receiver (events) and, for the properties, what the last poll_events
\* delivered, whether close was called and in which frame.
NewWindow(b, cursor, t) ==
    [ handle |-> [ should_close |-> FALSE, pos |-> InitialPos,
                   size |-> << b.width, b.height >>,
                   framebuffer |-> << b.width, b.height >>,
                   viewport |-> << b.width, b.height >>,
                   cursor_mode |-> "Normal", cursor_pos |-> cursor,
                   title |-> b.title, pending |-> << >> ],
      events |-> << >>,
      title |-> b.title,
      keys |-> [ k \in KeyIndices |-> 0 ],
      mouse_buttons |-> [ k \in ButtonIndices |-> 0 ],
      current_frame |-> 0,
      frame_duration |-> FrameDuration(b.max_fps),
      last_time |-> t,
      width |-> b.width, height |-> b.height,
      aspect |-> Quotient(b.width, b.height),
      mouse_x |-> 0, mouse_y |-> 0,
      last_mouse_x |-> 0, last_mouse_y |-> 0,
      mouse_dx |-> 0, mouse_dy |-> 0,
      frame_time |-> t, delta_time |-> 0,
      delivered |-> << >>, close_called |-> FALSE, closed_at |-> 0 ]

\* WindowBuilder::build.  init_ok: what glfw::init answers (Ok or Err);
\* create_ok: whether glfw.create_window returns a window.  build keeps no
\* record of earlier calls: whether a repeated call fails is glfw::init's answer.
Build(b, cursor, init_ok, create_ok) ==
    /\ panic = NoPanic
    /\ Len(windows) < MaxWindows
    /\ IF ~init_ok
       THEN /\ panic' = [ kind |-> "You're trying to make multiple windows" ]
            /\ UNCHANGED windows
       ELSE IF ~create_ok
       THEN /\ panic' = [ kind |-> "Failed to create a window." ]
            /\ UNCHANGED windows
       ELSE /\ windows' = Append(windows, NewWindow(b, cursor, now))
            /\ UNCHANGED panic
    /\ UNCHANGED <<now, meshVars>>

-----------------------------------------------------------------------------
(* window.rs: Window::poll_events *)

\* glfw.poll_events(): each native event reaches the window, and a polled one
\* is sent to the receiver.
RECURSIVE Deliver(_, _)
Deliver(h, evs) ==
    IF evs = << >> THEN [ handle |-> h, messages |-> << >> ]
    ELSE LET e  == Head(evs)
             h1 == CASE e.type = "Close" -> [ h EXCEPT !.should_close = TRUE ]
                     [] e.type = "CursorPos" -> [ h EXCEPT !.cursor_pos = << e.x, e.y >> ]
                     [] e.type = "FramebufferSize" ->
                           [ h EXCEPT !.size = << e.width, e.height >>,
                                      !.framebuffer = << e.width, e.height >> ]
                     [] OTHER -> h
             r  == Deliver(h1, Tail(evs))
         IN  [ handle |-> r.handle,
               messages |-> (IF Polled(e) THEN << e >> ELSE << >>) \o r.messages ]

\* A Release that stores the frame as a Press does.
CounterKeepsFrame(action, current_frame) == current_frame

\* The value a Press or Release stores in the counter array.
Counter(action, current_frame) == IF action = "Press" THEN current_frame ELSE 0

\* The FramebufferSize arm with the aspect left as it was.
on_framebuffer_sizeKeepsAspect(w, width, height) ==
    [ w EXCEPT !.width = width, !.height = height,
               !.handle.viewport = << width, height >> ]

\* The FramebufferSize(width, height) arm of the loop.
on_framebuffer_size(w, width, height) ==
    [ w EXCEPT !.width = width, !.height = height,
               !.aspect = Quotient(width, height),
               !.handle.viewport = << width, height >> ]

\* The loop over glfw::flush_messages(&self.events): the window after the
\* messages, what is left in the receiver, and whether an index panicked.
RECURSIVE ProcessEvents(_, _)
ProcessEvents(w, msgs) ==
    IF msgs = << >> THEN [ w |-> w, rest |-> << >>, panicked |-> FALSE ]
    ELSE LET e == Head(msgs)
         IN
         CASE e.type = "FramebufferSize" ->
                ProcessEvents(on_framebuffer_size(w, e.width, e.height), Tail(msgs))
           [] e.type = "Key" /\ e.action \in { "Press", "Release" } ->
                IF ~InBounds(KeyCode(e.key), KEY_LAST)
                THEN [ w |-> w, rest |-> Tail(msgs), panicked |-> TRUE ]
                ELSE ProcessEvents([ w EXCEPT !.keys[KeyCode(e.key)] =
                                                 Counter(e.action, w.current_frame) ],
                                   Tail(msgs))
           [] e.type = "MouseButton" /\ e.action \in { "Press", "Release" } ->
                IF ~InBounds(ButtonCode(e.button), MOUSE_BUTTON_LAST)
                THEN [ w |-> w, rest |-> Tail(msgs), panicked |-> TRUE ]
                ELSE ProcessEvents([ w EXCEPT !.mouse_buttons[ButtonCode(e.button)] =
                                                 Counter(e.action, w.current_frame) ],
                                   Tail(msgs))
           [] OTHER -> ProcessEvents(w, Tail(msgs))

\* Instant::elapsed: the time from instant to the clock reading t.
elapsed(instant, t) == t - instant

\* The delta measured from the end of the previous call's sleep step.
measure_deltaFromLastTime(w, t) == elapsed(w.last_time, t)

\* self.delta_time = self.frame_time.elapsed(), at time t
measure_delta(w, t) == elapsed(w.frame_time, t)

\* The sleep step that returns at once.
sleep_stepNeverSleeps(w, t, oversleep) == t

\* The sleep step of poll_events entered at time t: the time it ends at.
sleep_step(w, t, oversleep) ==
    IF elapsed(w.last_time, t) < w.frame_duration
    THEN t + (w.frame_duration - elapsed(w.last_time, t)) + oversleep
    ELSE t

\* poll_events at time t; batch: the native events that arrived since the last
\* call; oversleep: how much longer than asked the sleeper sleeps.
poll_events(w, t, batch, oversleep) ==
    LET t1 == sleep_step(w, t, oversleep)
        d  == Deliver(w.handle, w.handle.pending \o batch)
        w1 == [ w EXCEPT !.delta_time = measure_delta(w, t),
                         !.frame_time = t,
                         !.last_time = t1,
                         !.handle = [ d.handle EXCEPT !.pending = << >> ],
                         !.delivered = d.messages,
                         !.current_frame = w.current_frame + 1 ]
        p  == ProcessEvents(w1, w.events \o d.messages)
        cx == p.w.handle.cursor_pos[1]
        cy == p.w.handle.cursor_pos[2]
    IN  IF p.panicked
        THEN [ w |-> [ p.w EXCEPT !.events = p.rest ], now |-> t1, panicked |-> TRUE ]
        ELSE [ w |-> [ p.w EXCEPT !.events = p.rest,
                                  !.mouse_x = cx, !.mouse_y = cy,
                                  !.mouse_dx = cx - p.w.last_mouse_x,
                                  !.mouse_dy = cy - p.w.last_mouse_y,
                                  !.last_mouse_x = cx, !.last_mouse_y = cy ],
               now |-> t1, panicked |-> FALSE ]

PollEvents(i, batch, oversleep) ==
    /\ panic = NoPanic
    /\ i \in DOMAIN windows
    /\ windows[i].current_frame < MaxFrames
    /\ LET r == poll_events(windows[i], now, batch, oversleep)
       IN  /\ r.now <= MaxTime
           /\ windows' = [ windows EXCEPT ![i] = r.w ]
           /\ now' = r.now
           /\ panic' = IF r.panicked THEN [ kind |-> "index out of bounds" ] ELSE panic
    /\ UNCHANGED meshVars

\* Time passes between two calls of the program.
Tick ==
    /\ panic = NoPanic
    /\ now < MaxTime
    /\ now' = now + 1
    /\ UNCHANGED <<windows, panic, meshVars>>

-----------------------------------------------------------------------------
(* window.rs: the other Window operations *)

is_running(w) == ~w.handle.should_close

is_key_pressed(w, key) == w.keys[KeyCode(key)] > 0
is_key_just_pressed(w, key) == w.keys[KeyCode(key)] = w.current_frame
is_mouse_button_pressed(w, button) == w.mouse_buttons[ButtonCode(button)] > 0
is_mouse_button_just_pressed(w, button) ==
    w.mouse_buttons[ButtonCode(button)] = w.current_frame

\* is_mouse_grabbed comparing with the mode of a hidden, free cursor.
is_mouse_grabbedIfHidden(w) == w.handle.cursor_mode = "Hidden"

is_mouse_grabbed(w) == w.handle.cursor_mode = "Disabled"

\* glfwSetWindowSize: the native size changes at once; the framebuffer size
\* event of a changed size waits for the next glfw.poll_events().
SetNativeSize(h, width, height) ==
    IF << width, height >> = h.size THEN h
    ELSE [ h EXCEPT !.size = << width, height >>,
                    !.framebuffer = << width, height >>,
                    !.pending = Append(h.pending, FramebufferSizeEvent(width, height)) ]

get_x(w) == w.handle.pos[1]
get_y(w) == w.handle.pos[2]

\* set_x with the Y position taken from the place the window was created at.
set_xFromInitialY(w, value) == [ w EXCEPT !.handle.pos = << value, InitialPos[2] >> ]

set_x(w, value) == [ w EXCEPT !.handle.pos = << value, get_y(w) >> ]
set_y(w, value) == [ w EXCEPT !.handle.pos = << get_x(w), value >> ]
set_position(w, x, y) == [ w EXCEPT !.handle.pos = << x, y >> ]

set_width(w, value) == [ w EXCEPT !.handle = SetNativeSize(w.handle, value, w.height) ]
set_height(w, value) == [ w EXCEPT !.handle = SetNativeSize(w.handle, w.width, value) ]
set_size(w, width, height) == [ w EXCEPT !.handle = SetNativeSize(w.handle, width, height) ]

set_title(w, value) == [ w EXCEPT !.title = value, !.handle.title = value ]

grab_mouse(w) == [ w EXCEPT !.handle.cursor_mode = "Disabled" ]

release_mouse(w) ==
    [ w EXCEPT !.handle.cursor_mode = "Normal",
               !.mouse_x = w.handle.cursor_pos[1], !.mouse_y = w.handle.cursor_pos[2],
               !.last_mouse_x = w.handle.cursor_pos[1],
               !.last_mouse_y = w.handle.cursor_pos[2] ]

toggle_mouse(w) == IF is_mouse_grabbed(w) THEN release_mouse(w) ELSE grab_mouse(w)

\* close with the flag left as it was.
closeLeavesFlag(w) == [ w EXCEPT !.close_called = TRUE, !.closed_at = w.current_frame ]

close(w) ==
    [ w EXCEPT !.handle.should_close = TRUE,
               !.close_called = TRUE, !.closed_at = w.current_frame ]

\* swap_buffers shows the back buffer; nothing the wrapper reads changes.
swap_buffers(w) == w

\* A call of a Window method on window i.
Call(i, after) ==
    /\ panic = NoPanic
    /\ i \in DOMAIN windows
    /\ Len(after.handle.pending) <= MaxPending
    /\ windows' = [ windows EXCEPT ![i] = after ]
    /\ UNCHANGED <<now, panic, meshVars>>

SwapBuffers(i) == Call(i, swap_buffers(windows[i]))
SetX(i, v) == Call(i, set_x(windows[i], v))
SetY(i, v) == Call(i, set_y(windows[i], v))
SetPosition(i, x, y) == Call(i, set_position(windows[i], x, y))
SetWidth(i, v) == Call(i, set_width(windows[i], v))
SetHeight(i, v) == Call(i, set_height(windows[i], v))
SetSize(i, width, height) == Call(i, set_size(windows[i], width, height))
SetTitle(i, v) == Call(i, set_title(windows[i], v))
GrabMouse(i) == Call(i, grab_mouse(windows[i]))
ReleaseMouse(i) == Call(i, release_mouse(windows[i]))
ToggleMouse(i) == Call(i, toggle_mouse(windows[i]))
Close(i) == Call(i, close(windows[i]))

-----------------------------------------------------------------------------
(* Specification of the input tracking: one window, polled with every batch   *)
(* of key and mouse button events.                                            *)

Actions == { "Press", "Release", "Repeat" }

InputEvents ==
    { KeyEvent("A", a) : a \in Actions }
       \cup { KeyEvent(k, "Press") : k \in Keys }
       \cup { MouseButtonEvent(b, a) : b \in MouseButtons, a \in { "Press", "Release" } }

\* The sequences over S of length at most n
SeqsUpTo(S, n) == UNION { [ 1..m -> S ] : m \in 0..n }

InitWindows ==
    /\ attributes = LayoutDefaultValue
    /\ InitGL

NextInput ==
    \/ /\ windows = << >>
       /\ \E init_ok \in BOOLEAN, create_ok \in BOOLEAN :
             Build(WindowBuilderDefault, << 0, 0 >>, init_ok, create_ok)
    \/ \E i \in DOMAIN windows, batch \in SeqsUpTo(InputEvents, MaxBatch) :
          PollEvents(i, batch, 0)

SpecInput == InitWindows /\ [][NextInput]_vars

-----------------------------------------------------------------------------
(* Specification of one window under every Window operation.                  *)

Positions == { 50 }
Widths == { 100 }
Heights == { 300 }
Titles == { "Oh no!" }
CursorPositions == { << 0, 0 >>, << 3, 2 >> }

WindowEvents ==
    { CloseEvent, FramebufferSizeEvent(100, 300), CursorPosEvent(3, 2),
      KeyEvent("A", "Press"), KeyEvent("A", "Release") }

NextWindow ==
    \/ /\ windows = << >>
       /\ Build(WindowBuilderDefault, << 0, 0 >>, TRUE, TRUE)
    \/ \E i \in DOMAIN windows, batch \in SeqsUpTo(WindowEvents, 1) :
          PollEvents(i, batch, 0)
    \/ \E i \in DOMAIN windows : SwapBuffers(i)
    \/ \E i \in DOMAIN windows, v \in Positions : SetX(i, v)
    \/ \E i \in DOMAIN windows, v \in Positions : SetY(i, v)
    \/ \E i \in DOMAIN windows, x \in Positions, y \in Positions : SetPosition(i, x, y)
    \/ \E i \in DOMAIN windows, v \in Widths : SetWidth(i, v)
    \/ \E i \in DOMAIN windows, v \in Heights : SetHeight(i, v)
    \/ \E i \in DOMAIN windows, x \in Widths, y \in Heights : SetSize(i, x, y)
    \/ \E i \in DOMAIN windows, v \in Titles : SetTitle(i, v)
    \/ \E i \in DOMAIN windows : GrabMouse(i)
    \/ \E i \in DOMAIN windows : ReleaseMouse(i)
    \/ \E i \in DOMAIN windows : ToggleMouse(i)
    \/ \E i \in DOMAIN windows : Close(i)

SpecWindow == InitWindows /\ [][NextWindow]_vars

-----------------------------------------------------------------------------
(* Specification of the uniforms: shaders that compile and link, with any     *)
(* uniform locations, bound, unbound, written to and dropped in any order.    *)

LinkingArgs ==
    { a \in ShaderArgs : /\ a.vertex_readable /\ a.fragment_readable
                         /\ a.vertex_compiles /\ a.fragment_compiles /\ a.links }

NextUniform ==
    \/ \E s \in Slots, a \in LinkingArgs, l \in UniformLocations : ShaderNewWith(s, a, l)
    \/ \E s \in Slots : ShaderBind(s)
    \/ ShaderUnbind
    \/ \E s \in Slots, n \in UniformNames, v \in UniformValues : ShaderSetInt(s, n, v)
    \/ \E s \in Slots : ShaderDrop(s)

SpecUniform == InitResources /\ [][NextUniform]_vars

-----------------------------------------------------------------------------
(* Specification of the textures: loaded, bound to any unit, unbound and      *)
(* dropped in any order.                                                      *)

NextTexture ==
    \/ \E s \in Slots, a \in TextureArgs : TextureLoad(s, a)
    \/ \E s \in Slots, u \in Units : TextureBind(s, u)
    \/ TextureUnbind
    \/ \E s \in Slots : TextureDrop(s)

SpecTexture == InitResources /\ [][NextTexture]_vars

-----------------------------------------------------------------------------
(* Specification of the stored size: a window of any builder, resized by the  *)
(* program and by the environment (0 x 0: the framebuffer of a minimised      *)
(* window).                                                                   *)

Builders ==
    { WindowBuilderDefault,
      with_msaa(with_max_fps(with_vsync(with_title(with_size(WindowBuilderDefault,
          800, 600), "My Window"), FALSE), 2), 4) }

SizeEvents ==
    { FramebufferSizeEvent(0, 0), FramebufferSizeEvent(1920, 1080),
      KeyEvent("A", "Press") }

NextSize ==
    \/ /\ windows = << >>
       /\ \E b \in { WindowBuilderDefault, with_size(WindowBuilderDefault, 800, 600) } :
             Build(b, << 0, 0 >>, TRUE, TRUE)
    \/ \E i \in DOMAIN windows, batch \in SeqsUpTo(SizeEvents, MaxBatch) :
          PollEvents(i, batch, 0)
    \/ \E i \in DOMAIN windows, x \in Widths, y \in Heights : SetSize(i, x, y)

SpecSize == InitWindows /\ [][NextSize]_vars

-----------------------------------------------------------------------------
(* Specification of the frame timing: a window with or without an FPS cap,    *)
(* polled at any times, its sleeper sleeping as long as asked or longer.      *)

Oversleeps == { 0, 1 }

NextTime ==
    \/ /\ windows = << >>
       /\ \E b \in { WindowBuilderDefault, with_max_fps(WindowBuilderDefault, 2) } :
             Build(b, << 0, 0 >>, TRUE, TRUE)
    \/ Tick
    \/ \E i \in DOMAIN windows, oversleep \in Oversleeps : PollEvents(i, << >>, oversleep)

SpecTime == InitWindows /\ [][NextTime]_vars

-----------------------------------------------------------------------------
(* Specification of repeated builds: every answer of glfw::init and of        *)
(* create_window, for each call of build.                                     *)

NextBuild ==
    \/ \E b \in Builders, c \in CursorPositions, init_ok \in BOOLEAN, create_ok \in BOOLEAN :
          Build(b, c, init_ok, create_ok)
    \/ \E i \in DOMAIN windows, oversleep \in { 0, 1 } : PollEvents(i, << >>, oversleep)
    \/ \E i \in DOMAIN windows : SwapBuffers(i)
    \/ \E i \in DOMAIN windows : Close(i)

SpecBuild == InitWindows /\ [][NextBuild]_vars

-----------------------------------------------------------------------------
(* Properties of the layout arithmetic (SpecLayout) *)

\* The sum of the byte sizes of the attributes of l, from the left.
RECURSIVE SumOfSizes(_)
SumOfSizes(l) == IF l = << >> THEN 0 ELSE size_in_bytes(Head(l)) + SumOfSizes(Tail(l))

Prefix(l, n) == SubSeq(l, 1, n)

LiveMeshes == { s \in Slots : wrappers[s].type \in {"Mesh", "IndexedMesh"} }

\* C1: for every layout, the stride build_attributes_and_get_stride returns, and
\* the stride every vertex-attribute-pointer call is given, is the sum of
\* size_in_bytes over all the layout's attributes.
C1_StrideIsSumOfSizes ==
    /\ \A s \in LiveMeshes : wrappers[s].stride = SumOfSizes(attributes)
    /\ \A v \in DOMAIN glVertexArrays :
          \A k \in 1..Len(glVertexArrays[v].pointers) :
             glVertexArrays[v].pointers[k].stride = SumOfSizes(attributes)

\* A mesh built from a two-attribute layout of mixed scalar sizes (24 + 4 bytes).
C1_Witness ==
    /\ \E s \in LiveMeshes : wrappers[s].stride = 28 /\ wrappers[s].type = "Mesh"
    /\ Len(attributes) = 2
    /\ attributes[1] = "DVec3"
    /\ \E v \in DOMAIN glVertexArrays : Len(glVertexArrays[v].pointers) = 2

\* C2: attribute i (0-based) is enabled at location i, its pointer call names
\* location i with a byte offset equal to the sum of the sizes of attributes
\* 0..i-1; offsets increase strictly and the last offset plus the last size
\* is the stride.
C2_OffsetsArePrefixSums ==
    \A v \in DOMAIN glVertexArrays :
       LET va == glVertexArrays[v]
           n  == Len(attributes)
       IN  /\ Len(va.enabled) = n
           /\ Len(va.pointers) = n
           /\ \A k \in 1..n :
                 /\ va.enabled[k] = k - 1
                 /\ va.pointers[k].index = k - 1
                 /\ va.pointers[k].pointer = SumOfSizes(Prefix(attributes, k - 1))
           /\ \A k \in 1..(n - 1) : va.pointers[k].pointer < va.pointers[k + 1].pointer
           /\ n > 0 => /\ va.pointers[1].pointer = 0
                       /\ va.pointers[n].pointer + size_in_bytes(attributes[n])
                             = va.pointers[n].stride

\* The default_3d preset on a live mesh: offsets 0, 12, 20 and stride 32.
C2_Witness ==
    /\ attributes = default_3d
    /\ \E s \in LiveMeshes :
          /\ wrappers[s].vao \in DOMAIN glVertexArrays
          /\ LET va == glVertexArrays[wrappers[s].vao]
             IN  /\ Len(va.pointers) = 3
                 /\ va.pointers[2].pointer = 12
                 /\ va.pointers[3].pointer = 20
                 /\ va.pointers[3].stride = 32

-----------------------------------------------------------------------------
(* Properties of the native resources (SpecResources, SpecLoad) *)

\* The native handles a wrapper value holds.
Handles(w) ==
    CASE w.type = "Mesh"        -> { <<"vertex array", w.vao>>, <<"buffer", w.vbo>> }
      [] w.type = "IndexedMesh" -> { <<"vertex array", w.vao>>, <<"buffer", w.ebo>>,
                                     <<"buffer", w.vbo>> }
      [] w.type = "Shader"      -> { <<"program", w.program>> }
      [] w.type = "Texture"     -> { <<"texture", w.id>> }
      [] OTHER                  -> {}

\* The native object a handle names exists.
Live(h) ==
    CASE h[1] = "vertex array" -> h[2] \in DOMAIN glVertexArrays
      [] h[1] = "buffer"       -> h[2] \in glBuffers
      [] h[1] = "program"      -> h[2] \in glPrograms
      [] h[1] = "texture"      -> h[2] \in DOMAIN glTextures
      [] h[1] = "shader"       -> h[2] \in DOMAIN glShaders

\* A delete call was issued for the object and did what it can do: the object
\* is gone, or it is a shader flagged for deletion.
Deleted(h) ==
    \/ ~Live(h)
    \/ h[1] = "shader" /\ glShaders[h[2]].flagged

\* C3: every native handle is released exactly once, by its single owner: no
\* handle is deleted twice, none is owned by two live wrappers, and no live
\* wrapper draws with (or holds) a handle already deleted.
C3_HandlesReleasedOnce ==
    /\ ~deletedDead
    /\ ~drewDead
    /\ \A s, t \in Slots : s # t => Handles(wrappers[s]) \cap Handles(wrappers[t]) = {}
    /\ \A s \in Slots : \A h \in Handles(wrappers[s]) : Live(h)

\* C8: when Shader::new fails to compile or link, every native object the call
\* created has been deleted by the time it panics.
C8_FailureDeletesAllCreated ==
    (call.op = "Shader::new" /\ panic.kind \in {"compile", "link"})
        => \A h \in call.created : Deleted(h)

\* Every live shader, program and texture belongs to a live wrapper: a program
\* or texture is held by one, a shader is attached to a held program.
NoOrphans ==
    /\ \A p \in glPrograms : \E s \in Slots : <<"program", p>> \in Handles(wrappers[s])
    /\ \A t \in DOMAIN glTextures : \E s \in Slots : <<"texture", t>> \in Handles(wrappers[s])
    /\ \A n \in DOMAIN glShaders : glShaders[n].attached \in glPrograms

\* C9: Shader::new reads both files before it creates a native object: an
\* unreadable vertex file aborts with the vertex path (also when the fragment
\* file is unreadable too), an unreadable fragment file with the fragment path,
\* and no native object was created; Texture::load_from_file aborts on a file it
\* cannot open or decode before it generates a texture.
C9_ReadFailuresCreateNothing ==
    /\ (call.op = "Shader::new" /\ ~call.vertex_readable)
          => /\ panic = ShaderPanic("read", "vertex", call.vertex_path)
             /\ call.created = {}
             /\ NoOrphans
    /\ (call.op = "Shader::new" /\ call.vertex_readable /\ ~call.fragment_readable)
          => /\ panic = ShaderPanic("read", "fragment", call.fragment_path)
             /\ call.created = {}
             /\ NoOrphans
    /\ (call.op = "Texture::load_from_file" /\ ~call.decodes)
          => /\ panic = [ kind |-> "load texture", path |-> call.path ]
             /\ call.created = {}
             /\ NoOrphans

\* Shader::new on two unreadable files, after another shader was loaded.
C9_Witness ==
    /\ call.op = "Shader::new"
    /\ ~call.vertex_readable
    /\ ~call.fragment_readable
    /\ panic.kind = "read"
    /\ glPrograms # {}

-----------------------------------------------------------------------------
(* Properties of the window                                                   *)

ValidKeys == { k \in Keys : InBounds(KeyCode(k), KEY_LAST) }
ValidButtons == { b \in MouseButtons : InBounds(ButtonCode(b), MOUSE_BUTTON_LAST) }

\* The Press and Release events of a key, of a mouse button, among msgs
KeyChanges(msgs, k) ==
    SelectSeq(msgs, LAMBDA e : e.type = "Key" /\ e.key = k
                                 /\ e.action \in { "Press", "Release" })
ButtonChanges(msgs, b) ==
    SelectSeq(msgs, LAMBDA e : e.type = "MouseButton" /\ e.button = b
                                 /\ e.action \in { "Press", "Release" })

HasPress(changes) == \E n \in DOMAIN changes : changes[n].action = "Press"
EndsPressed(changes) == changes[Len(changes)].action = "Press"

\* A step in which poll_events of window i returns
Polls(i) ==
    /\ i \in DOMAIN windows
    /\ i \in DOMAIN windows'
    /\ windows'[i].current_frame = windows[i].current_frame + 1
    /\ panic' = NoPanic

\* C4: for every key and every mouse button, a poll_events that processes no
\* Press and no Release for it (Repeat events and events of other keys
\* included) leaves is_key_pressed / is_mouse_button_pressed as it was, and
\* one that processes some makes it true exactly when the last of them is a
\* Press: true from the Press until the next Release, false from the Release
\* until the next Press.
C4_PressedFromPressUntilRelease ==
    [][ \A i \in DOMAIN windows : Polls(i) =>
          /\ \A k \in ValidKeys :
                LET changes == KeyChanges(windows'[i].delivered, k)
                IN  is_key_pressed(windows'[i], k) =
                       IF changes = << >> THEN is_key_pressed(windows[i], k)
                       ELSE EndsPressed(changes)
          /\ \A b \in ValidButtons :
                LET changes == ButtonChanges(windows'[i].delivered, b)
                IN  is_mouse_button_pressed(windows'[i], b) =
                       IF changes = << >> THEN is_mouse_button_pressed(windows[i], b)
                       ELSE EndsPressed(changes)
      ]_vars

\* Key A pressed in an earlier frame is still reported pressed after a
\* poll_events that processed a Repeat of A and an event of key B.
C4_Witness ==
    \E i \in DOMAIN windows :
       /\ panic = NoPanic
       /\ windows[i].keys[KeyCode("A")] > 0
       /\ windows[i].keys[KeyCode("A")] < windows[i].current_frame
       /\ is_key_pressed(windows[i], "A")
       /\ windows[i].delivered = << KeyEvent("A", "Repeat"), KeyEvent("B", "Press") >>

\* C5: after a poll_events, is_key_just_pressed / is_mouse_button_just_pressed
\* of a key or button is true if a Press for it was processed in that call,
\* and false if none was.
C5_JustPressedInTheFrameOfThePress ==
    \A i \in DOMAIN windows :
       (panic = NoPanic /\ windows[i].current_frame >= 1) =>
          /\ \A k \in ValidKeys :
                is_key_just_pressed(windows[i], k)
                   <=> HasPress(KeyChanges(windows[i].delivered, k))
          /\ \A b \in ValidButtons :
                is_mouse_button_just_pressed(windows[i], b)
                   <=> HasPress(ButtonChanges(windows[i].delivered, b))

\* C6: after poll_events returns, the events receiver holds the events that
\* call delivered.
C6_ReceiverHoldsTheFrameEvents ==
    \A i \in DOMAIN windows :
       (panic = NoPanic /\ windows[i].current_frame >= 1) =>
          windows[i].events = windows[i].delivered

\* C7: once close was called on a window, is_running is false in every later
\* state, whatever Window operations follow.
C7_ClosedStaysClosed ==
    \A i \in DOMAIN windows : windows[i].close_called => ~is_running(windows[i])

\* close was called, then poll_events ran, the mouse was grabbed and the
\* window was resized.
C7_Witness ==
    \E i \in DOMAIN windows :
       /\ windows[i].close_called
       /\ windows[i].current_frame > windows[i].closed_at
       /\ is_mouse_grabbed(windows[i])
       /\ windows[i].handle.pending # << >>
       /\ ~is_running(windows[i])

\* C10: at most one Window is ever returned by build.
C10_AtMostOneWindow == Len(windows) <= 1

-----------------------------------------------------------------------------
(* Properties of the window geometry and the mouse grab (SpecWindow) *)

NativeWidth(w) == w.handle.size[1]
NativeHeight(w) == w.handle.size[2]

\* C11: a set_width call leaves the height of the native window as it was
\* just before the call, and a set_height call leaves its width as it was.
C11_SetWidthKeepsHeight ==
    [][ \A i \in DOMAIN windows :
          /\ (\E v \in Widths : SetWidth(i, v)) =>
                NativeHeight(windows'[i]) = NativeHeight(windows[i])
          /\ (\E v \in Heights : SetHeight(i, v)) =>
                NativeWidth(windows'[i]) = NativeWidth(windows[i])
      ]_vars

\* C12: a set_x(v) call makes get_x() = v and leaves get_y() as it was just
\* before the call; a set_y(v) call makes get_y() = v and leaves get_x() as it
\* was, whatever calls came before, set_position without a poll_events included.
C12_SetXKeepsY ==
    [][ \A i \in DOMAIN windows : \A v \in Positions :
          /\ SetX(i, v) => /\ get_x(windows'[i]) = v
                           /\ get_y(windows'[i]) = get_y(windows[i])
          /\ SetY(i, v) => /\ get_y(windows'[i]) = v
                           /\ get_x(windows'[i]) = get_x(windows[i])
      ]_vars

\* set_x(50) has moved a window whose Y position was 0, with the size of a
\* set_size call still waiting for the next poll_events.
C12_Witness ==
    \E i \in DOMAIN windows :
       /\ get_x(windows[i]) = 50
       /\ get_y(windows[i]) = 0
       /\ windows[i].handle.pending # << >>

\* C13: toggle_mouse makes is_mouse_grabbed() the opposite of what it was,
\* grab_mouse makes it true and release_mouse makes it false.
C13_ToggleFlipsGrab ==
    [][ \A i \in DOMAIN windows :
          /\ ToggleMouse(i) =>
                is_mouse_grabbed(windows'[i]) = ~is_mouse_grabbed(windows[i])
          /\ GrabMouse(i) => is_mouse_grabbed(windows'[i])
          /\ ReleaseMouse(i) => ~is_mouse_grabbed(windows'[i])
      ]_vars

\* A window that is grabbed while the cursor position it stores is the one
\* release_mouse or poll_events sampled after the cursor moved.
C13_Witness ==
    \E i \in DOMAIN windows :
       /\ is_mouse_grabbed(windows[i])
       /\ windows[i].current_frame >= 1
       /\ windows[i].last_mouse_x = 3

\* The FramebufferSize events among msgs
SizeChanges(msgs) == SelectSeq(msgs, LAMBDA e : e.type = "FramebufferSize")

\* C14: in every state of a window, get_aspect() is the quotient of the stored
\* get_width() and get_height(), and after a poll_events that processed
\* framebuffer size events the two are the size of the last of them.
C14_AspectIsWidthByHeight ==
    \A i \in DOMAIN windows :
       LET w == windows[i]
           changes == SizeChanges(w.delivered)
       IN  /\ w.aspect = Quotient(w.width, w.height)
           /\ (panic = NoPanic /\ changes # << >>) =>
                 /\ w.width = changes[Len(changes)].width
                 /\ w.height = changes[Len(changes)].height

\* poll_events has processed the event of a set_size(100, 300) call: the
\* stored size is 100 x 300 and the aspect 1/3.
C14_Witness ==
    \E i \in DOMAIN windows :
       /\ SizeChanges(windows[i].delivered) # << >>
       /\ windows[i].width = 100
       /\ windows[i].height = 300
       /\ windows[i].aspect = [ num |-> 1, den |-> 3 ]

-----------------------------------------------------------------------------
(* Properties of the frame timing (SpecTime) *)

\* C15: with a frame duration above zero, a poll_events ends its sleep step,
\* and records that instant, no earlier than one frame duration after the
\* instant the previous poll_events (or build) recorded; with the zero frame
\* duration of NO_MAX_FPS a poll_events never sleeps.
C15_FpsCapHolds ==
    [][ \A i \in DOMAIN windows : Polls(i) =>
          /\ windows'[i].last_time = now'
          /\ now' >= windows[i].last_time + windows[i].frame_duration
          /\ windows[i].frame_duration = FrameDuration(NO_MAX_FPS) => now' = now
      ]_vars

\* The second poll_events of a capped window has slept.
C15_Witness ==
    \E i \in DOMAIN windows :
       /\ windows[i].frame_duration > 0
       /\ windows[i].current_frame >= 2
       /\ windows[i].last_time > windows[i].frame_time

\* A step in which build returns a window
Builds == Len(windows') = Len(windows) + 1

\* C16: build leaves get_delta_raw() at 0 and records its own time; every
\* poll_events sets get_delta_raw() to the time from the start of the previous
\* poll_events (or from build) to its own start, before it sleeps, and records
\* its own start; nothing else changes get_delta_raw().
C16_DeltaIsTimeBetweenPollStarts ==
    [][ /\ Builds => /\ windows'[Len(windows')].delta_time = 0
                     /\ windows'[Len(windows')].frame_time = now
        /\ \A i \in DOMAIN windows :
              IF Polls(i)
              THEN /\ windows'[i].delta_time = now - windows[i].frame_time
                   /\ windows'[i].frame_time = now
              ELSE i \in DOMAIN windows' =>
                      /\ windows'[i].delta_time = windows[i].delta_time
                      /\ windows'[i].frame_time = windows[i].frame_time
      ]_vars

\* The delta of the second poll_events of a capped window holds the sleep of
\* the first and more, while the second has itself slept.
C16_Witness ==
    \E i \in DOMAIN windows :
       /\ windows[i].current_frame = 2
       /\ windows[i].frame_duration > 0
       /\ windows[i].delta_time > windows[i].frame_duration
       /\ windows[i].last_time > windows[i].frame_time

-----------------------------------------------------------------------------
(* Properties of the mouse (SpecBuild) *)

\* C17: after every poll_events, the first one included, get_mouse_dx() and
\* get_mouse_dy() are the cursor position this call sampled minus the cursor
\* position before it, and 0 when the cursor did not move.
C17_MouseDeltaIsCursorMovement ==
    [][ \A i \in DOMAIN windows : Polls(i) =>
          /\ windows'[i].mouse_dx =
                windows'[i].handle.cursor_pos[1] - windows[i].handle.cursor_pos[1]
          /\ windows'[i].mouse_dy =
                windows'[i].handle.cursor_pos[2] - windows[i].handle.cursor_pos[2]
      ]_vars

-----------------------------------------------------------------------------
(* Properties of the texture units (SpecResources) *)

\* C18: Texture::bind(slot) makes slot the active unit, binds the texture to
\* it and leaves the binding of every other unit as it was; after
\* Texture::unbind() no unit has a texture bound.
C18_UnbindLeavesNoTextureBound ==
    [][ /\ \A s \in Slots, u \in Units :
              TextureBind(s, u) =>
                 /\ glActiveTexture' = u
                 /\ glTextureBinding'[u] = wrappers[s].id
                 /\ \A o \in Units \ {u} : glTextureBinding'[o] = glTextureBinding[o]
        /\ TextureUnbind => \A u \in Units : glTextureBinding'[u] = 0
      ]_vars

-----------------------------------------------------------------------------
(* Properties of the attribute types and the layout (SpecLayout) *)

ExpectedSize ==
    [ Float |-> 4, Vec2 |-> 8, Vec3 |-> 12, Vec4 |-> 16,
      Double |-> 8, DVec2 |-> 16, DVec3 |-> 24, DVec4 |-> 32,
      Int |-> 4, IVec2 |-> 8, IVec3 |-> 12, IVec4 |-> 16,
      UInt |-> 4, UVec2 |-> 8, UVec3 |-> 12, UVec4 |-> 16 ]

ExpectedScalarSize(a) == IF a \in { "Double", "DVec2", "DVec3", "DVec4" } THEN 8 ELSE 4

\* C19: size_in_bytes of each of the 16 attribute types is 4, 8, 12, 16 for
\* the float, int and unsigned types and 8, 16, 24, 32 for the double types;
\* the component count of every native pointer call is in 1..4 and is the
\* attribute's size_in_bytes divided by its scalar size.
C19_SizesAndComponentCounts ==
    /\ DOMAIN ExpectedSize = Attribute
    /\ \A a \in Attribute : size_in_bytes(a) = ExpectedSize[a]
    /\ \A v \in DOMAIN glVertexArrays :
          \A k \in 1..Len(glVertexArrays[v].pointers) :
             LET count == glVertexArrays[v].pointers[k].size
             IN  /\ count \in 1..4
                 /\ count * ExpectedScalarSize(attributes[k]) = size_in_bytes(attributes[k])

\* A vertex array built for a layout with a DVec2 and a UVec3: component
\* counts 2 and 3.
C19_Witness ==
    /\ attributes = << "DVec2", "UVec3" >>
    /\ \E v \in DOMAIN glVertexArrays :
          /\ Len(glVertexArrays[v].pointers) = 2
          /\ glVertexArrays[v].pointers[1].size = 2
          /\ glVertexArrays[v].pointers[2].size = 3

\* C20: Layout::default() is the empty list, a preset is one of the four
\* documented lists, and next_attribute(a) keeps the list it is given and puts
\* a behind it, at the next free location.
C20_NextAttributeAppends ==
    [][ /\ LayoutDefault => attributes' = << >>
        /\ \A p \in Presets :
              LayoutPreset(p) =>
                 attributes' \in { << "Vec3", "Vec2", "Vec3" >>, << "Vec3", "Vec3" >>,
                                   << "Vec2", "Vec2" >>, << "Vec2" >> }
        /\ \A a \in Attribute :
              NextAttribute(a) =>
                 /\ Len(attributes') = Len(attributes) + 1
                 /\ SubSeq(attributes', 1, Len(attributes)) = attributes
                 /\ attributes'[Len(attributes) + 1] = a
      ]_vars

\* A mesh of the layout basic_2d().next_attribute(IVec3): the added attribute
\* is at location 1.
C20_Witness ==
    /\ attributes = << "Vec2", "IVec3" >>
    /\ \E v \in DOMAIN glVertexArrays :
          /\ Len(glVertexArrays[v].pointers) = 2
          /\ glVertexArrays[v].pointers[2].index = 1
          /\ glVertexArrays[v].pointers[2].type = "INT"

-----------------------------------------------------------------------------
(* Properties of the texture loading (SpecTexture) *)

LINEAR_MIPMAP_LINEAR == 9987

\* C21: a load_from_file(path, filter, wrap) that returns, for filter NEAREST
\* or LINEAR, leaves a texture whose magnification filter is filter, whose
\* minification filter is NEAREST_MIPMAP_LINEAR for NEAREST and
\* LINEAR_MIPMAP_LINEAR for LINEAR, whose max level is 4 and whose mipmaps were
\* generated from the uploaded image, and leaves no texture bound to the
\* active unit.
C21_LoadEnablesMipmapping ==
    [][ \A s \in Slots, a \in TextureArgs :
          (TextureLoad(s, a) /\ panic' = NoPanic) =>
             LET texture == glTextures'[wrappers'[s].id]
             IN  /\ texture.mag_filter = a.filter
                 /\ texture.min_filter = IF a.filter = NEAREST
                                         THEN NEAREST_MIPMAP_LINEAR
                                         ELSE LINEAR_MIPMAP_LINEAR
                 /\ texture.max_level = 4
                 /\ texture.image
                 /\ texture.mipmaps
                 /\ glTextureBinding'[glActiveTexture'] = 0
      ]_vars

\* A LINEAR texture was loaded last, with another texture still bound to a
\* unit that is not the active one: the active unit has no texture bound.
C21_Witness ==
    /\ call.op = "Texture::load_from_file"
    /\ panic = NoPanic
    /\ \E s \in Slots, t \in Slots :
          /\ s # t
          /\ wrappers[s].type = "Texture"
          /\ wrappers[t].type = "Texture"
          /\ glTextures[wrappers[s].id].mag_filter = LINEAR
          /\ \E u \in Units \ {glActiveTexture} : glTextureBinding[u] = wrappers[t].id
          /\ glTextureBinding[glActiveTexture] = 0

-----------------------------------------------------------------------------
(* Properties of the counter arrays (SpecInput) *)

\* C22: no key or mouse button event makes poll_events index outside the
\* counter arrays: poll_events never panics with an index out of bounds.
C22_NoIndexOutOfBounds == panic.kind # "index out of bounds"

-----------------------------------------------------------------------------
(* Properties of Mesh::new (SpecLayout) *)

\* C23: for every layout, the empty Layout::default() included, Mesh::new
\* returns without panicking: its division by the stride never fails.
C23_MeshNewNeverPanics == panic.kind # "attempt to divide by zero"

-----------------------------------------------------------------------------
(* Properties of the uniforms (SpecUniform) *)

\* C24: a uniform setter called on a shader changes no uniform value of any
\* other shader's program, whichever program is bound.
C24_SetterWritesOwnProgramOnly ==
    [][ \A s \in Slots, n \in UniformNames, v \in UniformValues :
          ShaderSetInt(s, n, v) =>
             \A q \in DOMAIN glUniforms \ {wrappers[s].program} :
                glUniforms'[q] = glUniforms[q]
      ]_vars

====
